---- MODULE Spec2Model ----
(***************************************************************************)
(* Broken-link detection of src/responsove.js: one call of                 *)
(* searchBrokenLinks, which calls findBrokenLinks, which fetches the page,  *)
(* extracts the href of every anchor, resolves each against the base URL    *)
(* and awaits isLinkBroken for each in turn.  isLinkBroken issues a HEAD    *)
(* request through axios and, when that promise rejects, one GET request.   *)
(* The model begins at the entry of searchBrokenLinks; the steps that main  *)
(* awaits before it calls searchBrokenLinks (checkResponse, the puppeteer   *)
(* and lighthouse runs, the canonical, sitemap and schema checks), which    *)
(* can hang or reject, are outside it.                                      *)
(* The free functions of the first script (lines 149-205) have the same     *)
(* bodies as the methods of the class (lines 348-393).                      *)
(*                                                                          *)
(* The environment is the remote server: for every request it either        *)
(* answers with a status code, fails at transport level, or never answers.  *)
(* axios is called with { maxRedirects: 5 } only, so its default            *)
(* validateStatus (2xx resolves, anything else rejects) and its default     *)
(* timeout (none) apply, to the page request as well as to the probes.      *)
(* url.resolve throws on an href it cannot parse (ERR_INVALID_URL, for      *)
(* instance "http://[::1"); in the link loop that exception is caught by    *)
(* the catch block of findBrokenLinks.                                      *)
(***************************************************************************)
EXTENDS Integers, Sequences, FiniteSets, TLC

VARIABLES pc, pageFate, fetched, links, idx, inflight, reqs, outcomes,
          brokenLinks, returned, caught, report

vars == <<pc, pageFate, fetched, links, idx, inflight, reqs, outcomes,
          brokenLinks, returned, caught, report>>

\* Longest extracted link list explored.
MaxLinks == 2

(***************************************************************************)
(* URLs and raw href values                                                 *)
(***************************************************************************)
Url(scheme, host, path, frag) ==
    [scheme |-> scheme, host |-> host, path |-> path, frag |-> frag]

\* const baseUrl = 'https://www.carwale.com/mercedes-benz-cars/s-class/s-350d/'
baseUrl == Url("https", "www.carwale.com", "/mercedes-benz-cars/s-class/s-350d/", "")

\* href values found on a page: a host-relative path, a fragment-only
\* reference, an absolute reference with a non-HTTP scheme, and a string
\* that url.resolve cannot parse (kept as written in the path field).
PathRef(p) == [kind |-> "path", path |-> p, frag |-> "", url |-> baseUrl]
FragRef(f) == [kind |-> "frag", path |-> "", frag |-> f, url |-> baseUrl]
AbsRef(u)  == [kind |-> "abs", path |-> "", frag |-> "", url |-> u]
InvalidRef(t) == [kind |-> "invalid", path |-> t, frag |-> "", url |-> baseUrl]

RawLinks == { PathRef("/a"), PathRef("/b"), FragRef("top"),
              AbsRef(Url("mailto", "", "m@example.com", "")),
              InvalidRef("http://[::1") }

\* url.resolve(base, link): an absolute reference replaces the base, a path
\* replaces path and fragment, a fragment replaces the fragment only; an
\* href that cannot be parsed makes it throw ERR_INVALID_URL.
urlResolve(base, raw) ==
    CASE raw.kind = "abs"     -> [threw |-> FALSE, url |-> raw.url]
      [] raw.kind = "path"    -> [threw |-> FALSE,
                                  url |-> [base EXCEPT !.path = raw.path, !.frag = ""]]
      [] raw.kind = "frag"    -> [threw |-> FALSE, url |-> [base EXCEPT !.frag = raw.frag]]
      [] raw.kind = "invalid" -> [threw |-> TRUE, url |-> base]

\* The policy of the URL resolver in the design: fragment-only references and
\* non-HTTP schemes are not to be probed.
skipProbe(raw) ==
    \/ raw.kind = "frag"
    \/ raw.kind = "abs" /\ raw.url.scheme \notin {"http", "https"}

RECURSIVE SeqsUpTo(_)
SeqsUpTo(n) ==
    IF n = 0 THEN { <<>> }
    ELSE LET shorter == SeqsUpTo(n - 1)
         IN  shorter \cup { Append(s, r) : s \in { t \in shorter : Len(t) = n - 1 },
                                           r \in RawLinks }

LinkLists == SeqsUpTo(MaxLinks)

(***************************************************************************)
(* The server's answer to one request, and what axios makes of it           *)
(***************************************************************************)
StatusFate(s) == [kind |-> "status", status |-> s]
NetErr        == [kind |-> "neterr", status |-> 0]
NoResponse    == [kind |-> "noresponse", status |-> 0]
\* No request issued yet.
NoRequest     == [kind |-> "none", status |-> 0]

Statuses == {200, 404, 405}

\* What can happen to a request for url.  A URL whose scheme axios' HTTP
\* adapter does not support is rejected before anything is sent.
Fates(url) ==
    IF url.scheme \in {"http", "https"}
    THEN { StatusFate(s) : s \in Statuses } \cup { NetErr, NoResponse }
    ELSE { NetErr }

\* axios default validateStatus.
validateStatus(status) == status >= 200 /\ status < 300

\* The settled promise of axios.head / axios.get for a request that has an
\* answer: resolved with the response, or rejected.
axiosRequest(fate) ==
    IF fate.kind = "status" /\ validateStatus(fate.status)
    THEN [settled |-> "resolved", status |-> fate.status]
    ELSE [settled |-> "rejected", status |-> fate.status]

(***************************************************************************)
(* isLinkBroken                                                             *)
(***************************************************************************)
\* Variant: the GET is issued whatever the HEAD request gave.
headOutcomeAlwaysFallback(settle) ==
    [fallback |-> TRUE, value |-> FALSE]

\* try { response = await axios.head(...); return response.status >= 400 }
\* catch -> the fallback block.
headOutcome(settle) ==
    IF settle.settled = "resolved"
    THEN [fallback |-> FALSE, value |-> settle.status >= 400]
    ELSE [fallback |-> TRUE, value |-> FALSE]

\* Variant: whatever the GET request gave, the link is reported broken.
getOutcomeAlwaysBroken(settle) ==
    [threw |-> FALSE, value |-> TRUE]

\* Variant: no inner catch block, the GET request's error leaves isLinkBroken.
getOutcomeRethrows(settle) ==
    IF settle.settled = "resolved"
    THEN [threw |-> FALSE, value |-> settle.status >= 400]
    ELSE [threw |-> TRUE, value |-> FALSE]

\* try { response = await axios.get(...); return response.status >= 400 }
\* catch { return true }
getOutcome(settle) ==
    IF settle.settled = "resolved"
    THEN [threw |-> FALSE, value |-> settle.status >= 400]
    ELSE [threw |-> FALSE, value |-> TRUE]

\* Variant: unshift instead of push.
pushBrokenAtFront(list, url) == <<url>> \o list

\* brokenLinks.push(fullUrl)
pushBroken(list, url) == Append(list, url)

\* for (const link of links): the loop is over when every link was taken.
loopDone(i, n) == i >= n

\* Variant: >= 0 in place of > 0.
searchReportOffByOne(list) ==
    IF Len(list) >= 0 THEN "Broken links found" ELSE "No broken links found"

\* searchBrokenLinks: which of the two messages is printed.
searchReport(list) ==
    IF Len(list) > 0 THEN "Broken links found" ELSE "No broken links found"

fullUrl == urlResolve(baseUrl, links[idx]).url

Request(method, url, fate) ==
    [link |-> idx, method |-> method, url |-> url, fate |-> fate]

Outcome(broken) ==
    [link |-> idx, raw |-> links[idx], url |-> fullUrl, broken |-> broken,
     reqs |-> reqs]

(***************************************************************************)
(* State machine                                                            *)
(***************************************************************************)
\* The state at the entry of searchBrokenLinks.
Init ==
    /\ pc = "start"
    /\ pageFate = NoRequest
    /\ fetched = "pending"
    /\ links = <<>>
    /\ idx = 0
    /\ inflight = {}
    /\ reqs = <<>>
    /\ outcomes = <<>>
    /\ brokenLinks = <<>>
    /\ returned = <<>>
    /\ caught = "none"
    /\ report = "none"

\* findBrokenLinks: axios.get(this.baseUrl) is issued and awaited.
RequestPage ==
    /\ pc = "start"
    /\ \E f \in Fates(baseUrl) : pageFate' = f
    /\ pc' = "fetch"
    /\ UNCHANGED <<fetched, links, idx, inflight, reqs, outcomes, brokenLinks,
                   returned, caught, report>>

\* findBrokenLinks: the page request resolves and the anchors' hrefs are
\* extracted.
FetchPageOk ==
    /\ pc = "fetch"
    /\ pageFate.kind # "noresponse"
    /\ axiosRequest(pageFate).settled = "resolved"
    /\ \E ls \in LinkLists : links' = ls
    /\ fetched' = "ok"
    /\ brokenLinks' = <<>>
    /\ pc' = "loop"
    /\ UNCHANGED <<pageFate, idx, inflight, reqs, outcomes, returned, caught, report>>

\* findBrokenLinks: the page request rejects; the catch block logs and
\* returns [].
FetchPageFail ==
    /\ pc = "fetch"
    /\ pageFate.kind # "noresponse"
    /\ axiosRequest(pageFate).settled = "rejected"
    /\ fetched' = "failed"
    /\ caught' = "fetch"
    /\ returned' = <<>>
    /\ pc' = "returned"
    /\ UNCHANGED <<pageFate, links, idx, inflight, reqs, outcomes, brokenLinks, report>>

\* The loop body up to the first await, for the link at position idx + 1:
\* url.resolve, then the HEAD request of isLinkBroken.  When url.resolve
\* throws, the catch block of findBrokenLinks logs and returns [].
TakeLink ==
    LET res == urlResolve(baseUrl, links[idx + 1])
    IN  /\ idx' = idx + 1
        /\ IF res.threw
           THEN /\ caught' = "resolve"
                /\ returned' = <<>>
                /\ pc' = "returned"
                /\ UNCHANGED <<inflight, reqs>>
           ELSE /\ \E f \in Fates(res.url) :
                     /\ inflight' = inflight \cup
                          { [link |-> idx + 1, method |-> "HEAD",
                             url |-> res.url, fate |-> f] }
                     /\ reqs' = << [method |-> "HEAD", fate |-> f] >>
                /\ pc' = "awaitHead"
                /\ UNCHANGED <<caught, returned>>
        /\ UNCHANGED <<pageFate, fetched, links, outcomes, brokenLinks, report>>

\* Variant: isLinkBroken is called without await, so the next link is taken
\* while the previous probe is still pending.
DispatchHeadNoAwait ==
    /\ pc \in {"loop", "awaitHead", "awaitGet"}
    /\ idx < Len(links)
    /\ TakeLink

\* Next iteration of the loop.
DispatchHead ==
    /\ pc = "loop"
    /\ ~ loopDone(idx, Len(links))
    /\ TakeLink

\* The HEAD promise settles.  Resolved: isLinkBroken returns and the loop
\* body pushes a broken link.  Rejected: the GET request is issued.
HeadSettled ==
    /\ pc = "awaitHead"
    /\ \E r \in inflight :
         /\ r.link = idx /\ r.method = "HEAD"
         /\ r.fate.kind # "noresponse"
         /\ LET out == headOutcome(axiosRequest(r.fate))
            IN  IF out.fallback
                THEN /\ \E f \in Fates(r.url) :
                          /\ inflight' = (inflight \ {r}) \cup { Request("GET", r.url, f) }
                          /\ reqs' = Append(reqs, [method |-> "GET", fate |-> f])
                     /\ pc' = "awaitGet"
                     /\ UNCHANGED <<outcomes, brokenLinks>>
                ELSE /\ inflight' = inflight \ {r}
                     /\ outcomes' = Append(outcomes, Outcome(out.value))
                     /\ brokenLinks' = IF out.value THEN pushBroken(brokenLinks, fullUrl)
                                       ELSE brokenLinks
                     /\ reqs' = <<>>
                     /\ pc' = "loop"
    /\ UNCHANGED <<pageFate, fetched, links, idx, returned, caught, report>>

\* The GET promise settles; isLinkBroken returns.  An exception leaving
\* isLinkBroken would end the loop in the catch block of findBrokenLinks.
GetSettled ==
    /\ pc = "awaitGet"
    /\ \E r \in inflight :
         /\ r.link = idx /\ r.method = "GET"
         /\ r.fate.kind # "noresponse"
         /\ inflight' = inflight \ {r}
         /\ LET out == getOutcome(axiosRequest(r.fate))
            IN  IF out.threw
                THEN /\ caught' = "probe"
                     /\ returned' = <<>>
                     /\ pc' = "returned"
                     /\ UNCHANGED <<outcomes, brokenLinks, reqs>>
                ELSE /\ outcomes' = Append(outcomes, Outcome(out.value))
                     /\ brokenLinks' = IF out.value THEN pushBroken(brokenLinks, fullUrl)
                                       ELSE brokenLinks
                     /\ reqs' = <<>>
                     /\ pc' = "loop"
                     /\ UNCHANGED <<caught, returned>>
    /\ UNCHANGED <<pageFate, fetched, links, idx, report>>

\* return brokenLinks
ReturnBrokenLinks ==
    /\ pc = "loop"
    /\ loopDone(idx, Len(links))
    /\ returned' = brokenLinks
    /\ pc' = "returned"
    /\ UNCHANGED <<pageFate, fetched, links, idx, inflight, reqs, outcomes,
                   brokenLinks, caught, report>>

\* searchBrokenLinks prints one of its two messages.
SearchBrokenLinks ==
    /\ pc = "returned"
    /\ report' = searchReport(returned)
    /\ pc' = "done"
    /\ UNCHANGED <<pageFate, fetched, links, idx, inflight, reqs, outcomes,
                   brokenLinks, returned, caught>>

Next ==
    \/ RequestPage
    \/ FetchPageOk
    \/ FetchPageFail
    \/ DispatchHead
    \/ HeadSettled
    \/ GetSettled
    \/ ReturnBrokenLinks
    \/ SearchBrokenLinks

Spec == Init /\ [][Next]_vars

\* From the entry of searchBrokenLinks on, every step is a continuation of
\* one async call chain: whatever is runnable is eventually run by the event
\* loop.  A request that is never answered enables no step.
FairSpec == Spec /\ WF_vars(Next)

(***************************************************************************)
(* Properties                                                               *)
(***************************************************************************)
Returned == pc \in {"returned", "done"}

Rejected(req) == axiosRequest(req.fate).settled = "rejected"

BothRejected(o) == Len(o.reqs) = 2 /\ Rejected(o.reqs[1]) /\ Rejected(o.reqs[2])

Methods(rs) == [k \in 1..Len(rs) |-> rs[k].method]

Range(s) == { s[k] : k \in DOMAIN s }

\* C1: a link whose HEAD request is answered 405 gets exactly one HEAD
\* followed by exactly one GET, and when that GET is answered 200 the link
\* is reported healthy (isLinkBroken returns false).
C1_FallbackCorrectness ==
    \A k \in DOMAIN outcomes :
        LET o == outcomes[k]
        IN  o.reqs[1].fate = StatusFate(405) =>
               /\ Methods(o.reqs) = <<"HEAD", "GET">>
               /\ (o.reqs[2].fate = StatusFate(200) => ~ o.broken)

C1_Witness ==
    \E k \in DOMAIN outcomes :
        /\ outcomes[k].reqs[1].fate = StatusFate(405)
        /\ Len(outcomes[k].reqs) = 2
        /\ outcomes[k].reqs[2].fate = StatusFate(200)
        /\ ~ outcomes[k].broken

\* C2: whenever the HEAD request is answered with a status code, the link is
\* classified by the HEAD request alone, no GET is issued for it, and it is
\* broken exactly when the status is >= 400 (404 -> broken, no GET).
C2_LightweightClassifies ==
    /\ (Len(reqs) >= 1 /\ reqs[1].fate.kind = "status" => Len(reqs) = 1)
    /\ \A k \in DOMAIN outcomes :
          LET o == outcomes[k]
          IN  o.reqs[1].fate.kind = "status" =>
                 /\ Methods(o.reqs) = <<"HEAD">>
                 /\ o.broken = (o.reqs[1].fate.status >= 400)

\* C3: a link whose HEAD and GET requests both raise an error is reported
\* broken; no error of a probe reaches the catch block of findBrokenLinks,
\* and whenever the loop is back at its head every link taken so far has its
\* outcome, so the loop goes on to the links that remain.
C3_UnreachableIsBroken ==
    /\ \A k \in DOMAIN outcomes : BothRejected(outcomes[k]) => outcomes[k].broken
    /\ caught # "probe"
    /\ (pc = "loop" => Len(outcomes) = idx)
    /\ (pc \in {"awaitHead", "awaitGet"} => Len(outcomes) = idx - 1)

C3_Witness ==
    /\ pc = "done"
    /\ Len(links) = 2
    /\ Len(outcomes) = 2
    /\ BothRejected(outcomes[1])
    /\ outcomes[1].reqs[1].fate = NetErr /\ outcomes[1].reqs[2].fate = NetErr
    /\ outcomes[1].broken

\* C4: when findBrokenLinks returns after a successful page fetch, every
\* extracted link has exactly one probe outcome, in page order; none is
\* dropped, none is skipped and none has two outcomes.
C4_Completeness ==
    fetched = "ok" /\ Returned =>
        /\ Len(outcomes) = Len(links)
        /\ \A k \in DOMAIN outcomes :
              /\ outcomes[k].link = k
              /\ outcomes[k].raw = links[k]

\* The resolved URLs of the links found broken so far, in page order.
BrokenInPageOrder ==
    LET sel == SelectSeq(outcomes, LAMBDA o : o.broken)
    IN  [k \in 1..Len(sel) |-> urlResolve(baseUrl, links[sel[k].link]).url]

\* s can be obtained from t by leaving elements out.
RECURSIVE IsSubSeq(_, _)
IsSubSeq(s, t) ==
    IF s = <<>> THEN TRUE
    ELSE IF t = <<>> THEN FALSE
    ELSE IF Head(s) = Head(t) THEN IsSubSeq(Tail(s), Tail(t))
    ELSE IsSubSeq(s, Tail(t))

\* C5: the list of broken links holds the resolved URLs of the broken links
\* in the order of the page, while it is built and when it is returned; what
\* findBrokenLinks returns never has two links in another order than the
\* page has them.
C5_OrderRestoration ==
    /\ (fetched = "ok" => brokenLinks = BrokenInPageOrder)
    /\ (Returned /\ caught = "none" => returned = BrokenInPageOrder)
    /\ (Returned => IsSubSeq(returned, BrokenInPageOrder))

C5_Witness ==
    /\ pc = "done" /\ fetched = "ok"
    /\ Len(returned) = 2
    /\ returned[1] # returned[2]
    /\ returned[1] = urlResolve(baseUrl, links[1]).url
    /\ returned[2] = urlResolve(baseUrl, links[2]).url

\* C6: at most one probe request is in flight at any time, and it belongs to
\* the link that follows the links that already have their outcome.
C6_BoundedConcurrency ==
    /\ Cardinality(inflight) <= 1
    /\ \A r \in inflight : r.link = Len(outcomes) + 1

C6_Witness ==
    /\ Len(links) = 2
    /\ Len(outcomes) = 1
    /\ \E r \in inflight : r.link = 2 /\ r.method = "GET"

\* C7: no request is issued for a fragment-only or non-HTTP link, it gets no
\* outcome, and it is not in the returned list of broken links.
C7_SkippedNeverProbed ==
    /\ \A r \in inflight : ~ skipProbe(links[r.link])
    /\ \A k \in DOMAIN outcomes : ~ skipProbe(outcomes[k].raw)
    /\ \A k \in DOMAIN links :
          skipProbe(links[k]) => urlResolve(baseUrl, links[k]).url \notin Range(returned)

\* C8: a request whose server never answers does not block the batch:
\* findBrokenLinks eventually returns and searchBrokenLinks completes.
C8_TimeoutTerminates ==
    (\E r \in inflight : r.fate = NoResponse) ~> (pc = "done")

WellFormedProbe(rs) ==
    /\ Len(rs) <= 2
    /\ (Len(rs) >= 1 => rs[1].method = "HEAD")
    /\ (Len(rs) = 2 => rs[2].method = "GET" /\ Rejected(rs[1]))

\* C9: a probe issues one HEAD request and then at most one GET request, the
\* GET only after the HEAD request was rejected and never together with it;
\* once the probe has its outcome nothing more is requested for that link.
C9_NoRetryBeyondFallback ==
    /\ WellFormedProbe(reqs)
    /\ \A k \in DOMAIN outcomes : WellFormedProbe(outcomes[k].reqs) /\ Len(outcomes[k].reqs) >= 1
    /\ \A r \in inflight :
          /\ r.link > Len(outcomes)
          /\ reqs[Len(reqs)] = [method |-> r.method, fate |-> r.fate]
    /\ (pc \in {"loop", "returned", "done"} => inflight = {})

C9_Witness ==
    /\ pc = "done"
    /\ \E k \in DOMAIN outcomes :
          /\ Methods(outcomes[k].reqs) = <<"HEAD", "GET">>
          /\ Rejected(outcomes[k].reqs[2])
    /\ \E k \in DOMAIN outcomes : Methods(outcomes[k].reqs) = <<"HEAD">>

\* C10: when the page fetch fails no probe is issued, findBrokenLinks returns
\* the empty list and searchBrokenLinks reports "No broken links found", the
\* report of a page whose probes all came out healthy.
C10_FetchFailureLooksClean ==
    /\ (fetched = "failed" =>
           /\ inflight = {} /\ outcomes = <<>> /\ idx = 0
           /\ (Returned => returned = <<>>)
           /\ (pc = "done" => report = "No broken links found"))
    /\ (fetched = "ok" /\ pc = "done" /\ (\A k \in DOMAIN outcomes : ~ outcomes[k].broken)
           => report = "No broken links found")

C10_Witness ==
    /\ pc = "done" /\ fetched = "failed" /\ caught = "fetch"
    /\ axiosRequest(pageFate).settled = "rejected"
    /\ report = "No broken links found"

====
